---- MODULE Spec2Model ----
(***************************************************************************)
(* Model of backoff_simulator.py: a discrete-event simulation of N OCC     *)
(* clients racing to update one versioned row, under five backoff          *)
(* policies.  Simulated time is counted in ticks, TicksPerMs ticks to the   *)
(* millisecond, and a time is a fraction of ticks, so that the halving on  *)
(* line 41 and random.uniform are exact; "%d" on line 80 truncates.        *)
(***************************************************************************)
EXTENDS Integers, Sequences, FiniteSets, TLC

\* ------------------------------------------------------------------ bounds
MaxClients == 2
MaxDelay == 2
Grain == 2
Reps == 2
MaxParam == 3
MaxAttempt == 3
MaxCalls == 3
TicksPerMs == 4

\* --------------------------------------------------------- program constants
SimBase == 5
SimCap == 2000

VARIABLES
    pc,        \* position in run(): "setup", "run", "done", "crashed"
    err,       \* the uncaught exception that ended the program, or "none"
    policy,    \* the backoff class of the current configuration (backoff[0])
    clients,   \* the population size of the current configuration
    rep,       \* t, the number of completed repetitions
    stats,     \* the Stats object: [calls, failures]
    version,   \* OccServer.version
    queue,     \* the heap list handed to run_sim
    tm,        \* run_sim's clock
    attempt,   \* OccClient.attempt, per client
    backoff,   \* OccClient.backoff, the policy object of each client
    ts_f,      \* the lines written to the trace file
    wlog,      \* the write requests the server handled in this run
    inst,      \* a policy object under test (BackoffSpec)
    ret,       \* the value its last backoff() call returned
    prev,      \* its sleep before that call
    arg,       \* the attempt number n of that call
    ncalls     \* the number of backoff() calls made on it

simvars == <<pc, err, policy, clients, rep, stats, version, queue, tm,
             attempt, backoff, ts_f, wlog>>
bovars == <<inst, ret, prev, arg, ncalls>>
vars == <<pc, err, policy, clients, rep, stats, version, queue, tm,
          attempt, backoff, ts_f, wlog, inst, ret, prev, arg, ncalls>>

\* ------------------------------------------------------------------ values
Server == 0
Policies == {"NoBackoff", "ExpoBackoff", "ExpoBackoffEqualJitter",
             "ExpoBackoffFullJitter", "ExpoBackoffDecorr"}

\* Python's None, as a handler reference and as a payload
NoneRef == [obj |-> -1, fn |-> "None"]
NonePayload == [kind |-> "None", val |-> 0]
IntPayload(v) == [kind |-> "int", val |-> v]
BoolPayload(b) == [kind |-> "bool", val |-> IF b THEN 1 ELSE 0]

\* Python's payload == v for a whole number v: None equals no number, and
\* True and False equal 1 and 0
Equals(payload, v) == payload.kind # "None" /\ payload.val = v

\* a bound method obj.fn
Method(o, f) == [obj |-> o, fn |-> f]

Abs(x) == IF x < 0 THEN -x ELSE x

RECURSIVE Pow2(_)
Pow2(n) == IF n = 0 THEN 1 ELSE 2 * Pow2(n - 1)

\* ------------------------------------------------------------------ numbers
\* The times and sleeps of the program are Python numbers.  The model
\* holds each as the fraction num/den of a tick, in lowest terms with
\* den > 0, so that equal numbers are equal records.
RECURSIVE Gcd(_, _)
Gcd(a, b) == IF b = 0 THEN a ELSE Gcd(b, a % b)

\* the fraction n/d, d > 0
Frac(n, d) ==
    LET g == Gcd(Abs(n), d)
    IN  [num |-> n \div g, den |-> d \div g]

\* the whole number n
Num(n) == [num |-> n, den |-> 1]

\* a + b, a - b, a * b, a < b, a <= b
Add(a, b) == Frac(a.num * b.den + b.num * a.den, a.den * b.den)
Sub(a, b) == Frac(a.num * b.den - b.num * a.den, a.den * b.den)
Mul(a, b) == Frac(a.num * b.num, a.den * b.den)
Less(a, b) == a.num * b.den < b.num * a.den
AtMost(a, b) == a.num * b.den <= b.num * a.den

\* Python's min(a, b)
Min(a, b) == IF Less(b, a) THEN b ELSE a

\* int(a): the whole part, rounding towards zero
Trunc(a) ==
    IF a.num >= 0 THEN a.num \div a.den ELSE -((-a.num) \div a.den)

\* ------------------------------------------------------------------ Net
\* the values random.normalvariate(mean, sd) may return, in ticks
NormalDraws == (-MaxDelay)..MaxDelay

\* delay without the abs(): the draw as it comes
delay_noabs(x) == Num(x)
\* Net.delay: the absolute value of the normal draw x
delay(x) == Num(Abs(x))

\* ------------------------------------------------------------------ Backoff
\* the values random.random() may return, as k/Grain
UnitDraws == 0..Grain

\* random.uniform(a, b) = a + (b - a) * random(), with random() = k/Grain
uniform(a, b, k) == Add(a, Mul(Sub(b, a), Frac(k, Grain)))

\* Backoff.__init__ (and ExpoBackoffDecorr.__init__, which seeds sleep)
NewBackoff(cls, base, cap) ==
    [cls |-> cls, base |-> base, cap |-> cap,
     sleep |-> IF cls = "ExpoBackoffDecorr" THEN base ELSE Num(0)]

\* expo without the min(): the exponential, never cut to the cap
expo_nocap(b, n) == Mul(Num(Pow2(n)), b.base)
\* Backoff.expo
expo(b, n) == Min(b.cap, Mul(Num(Pow2(n)), b.base))

\* the new sleep without the min(): the uniform draw, never cut to the cap
backoff_decorr_nomin(b, k) == uniform(b.base, Mul(b.sleep, Num(3)), k)
\* the new sleep of ExpoBackoffDecorr.backoff
backoff_decorr(b, k) == Min(b.cap, uniform(b.base, Mul(b.sleep, Num(3)), k))

\* backoff(n) of every class on object b with random draw k: the value
\* returned and the object afterwards
backoff_call(b, n, k) ==
    CASE b.cls = "NoBackoff" -> [ret |-> Num(0), obj |-> b]
      [] b.cls = "ExpoBackoff" -> [ret |-> expo(b, n), obj |-> b]
      [] b.cls = "ExpoBackoffEqualJitter" ->
            LET v == expo(b, n)
                half == Mul(v, Frac(1, 2))
            IN  [ret |-> Add(half, uniform(Num(0), half, k)), obj |-> b]
      [] b.cls = "ExpoBackoffFullJitter" ->
            LET v == expo(b, n)
            IN  [ret |-> uniform(Num(0), v, k), obj |-> b]
      [] b.cls = "ExpoBackoffDecorr" ->
            LET s == backoff_decorr(b, k)
            IN  [ret |-> s, obj |-> [b EXCEPT !.sleep = s]]

\* ------------------------------------------------------------------ msg
\* what msg() returns when neither assertion fails
msg(t, send_to, reply_to, payload) ==
    [tm |-> t, send_to |-> send_to, reply_to |-> reply_to, payload |-> payload]

\* the two assertions of msg()
MsgOk(t, send_to) == AtMost(Num(0), t) /\ send_to # NoneRef

\* a handler returning None instead of a message
NoMsg == msg(Num(0), NoneRef, NoneRef, NonePayload)

\* Python's a < b on two message tuples: the first differing component
\* decides; floats, ints and bools are ordered, bound methods and None are
\* not (TypeError)
TupleLess(a, b) ==
    IF a.tm # b.tm THEN (IF Less(a.tm, b.tm) THEN "lt" ELSE "ge")
    ELSE IF a.send_to # b.send_to THEN "err"
    ELSE IF a.reply_to # b.reply_to THEN "err"
    ELSE IF a.payload # b.payload
         THEN IF a.payload.kind = "None" \/ b.payload.kind = "None" THEN "err"
              ELSE IF a.payload.val < b.payload.val THEN "lt" ELSE "ge"
    ELSE "ge"

\* ------------------------------------------------------------------ heapq
\* heap positions are Python's (from 0); h[i + 1] is heap[i].  A comparison
\* that raises leaves the list as the interpreter's heapq leaves it: it
\* swaps in place, so the item on its way is stored where it has got to.
RECURSIVE SiftDownLoop(_, _, _, _)
SiftDownLoop(h, startpos, pos, newitem) ==
    IF pos > startpos
    THEN LET parentpos == (pos - 1) \div 2
             parent == h[parentpos + 1]
             c == TupleLess(newitem, parent)
         IN  IF c = "err"
             THEN [h |-> [h EXCEPT ![pos + 1] = newitem], err |-> TRUE]
             ELSE IF c = "lt"
                  THEN SiftDownLoop([h EXCEPT ![pos + 1] = parent],
                                    startpos, parentpos, newitem)
                  ELSE [h |-> [h EXCEPT ![pos + 1] = newitem], err |-> FALSE]
    ELSE [h |-> [h EXCEPT ![pos + 1] = newitem], err |-> FALSE]

\* heapq._siftdown
siftdown(h, startpos, pos) == SiftDownLoop(h, startpos, pos, h[pos + 1])

RECURSIVE SiftUpLoop(_, _, _, _, _)
SiftUpLoop(h, startpos, pos, childpos, newitem) ==
    IF childpos < Len(h)
    THEN LET rightpos == childpos + 1
             c == IF rightpos < Len(h)
                  THEN TupleLess(h[childpos + 1], h[rightpos + 1])
                  ELSE "lt"
             child == IF c = "lt" THEN childpos ELSE rightpos
         IN  IF c = "err"
             THEN [h |-> [h EXCEPT ![pos + 1] = newitem], err |-> TRUE]
             ELSE SiftUpLoop([h EXCEPT ![pos + 1] = h[child + 1]],
                             startpos, child, 2 * child + 1, newitem)
    ELSE siftdown([h EXCEPT ![pos + 1] = newitem], startpos, pos)

\* heapq._siftup
siftup(h, pos) == SiftUpLoop(h, pos, pos, 2 * pos + 1, h[pos + 1])

\* heapq.heappush: the heap afterwards, or err when a comparison raised
heappush(h, item) == siftdown(Append(h, item), 0, Len(h))

\* heapq.heappop on a non-empty heap: the item returned and the heap
\* afterwards, or err when a comparison raised; the last item has then
\* been taken off the list and put in the first's place
heappop(h) ==
    LET lastelt == h[Len(h)]
        rest == SubSeq(h, 1, Len(h) - 1)
    IN  IF rest # <<>>
        THEN LET r == siftup([rest EXCEPT ![1] = lastelt], 0)
             IN  [item |-> rest[1], h |-> r.h, err |-> r.err]
        ELSE [item |-> lastelt, h |-> rest, err |-> FALSE]

\* ------------------------------------------------------------------ objects
\* Stats.__init__
NewStats == [calls |-> 0, failures |-> 0]

\* the objects a handler can change
World == [version |-> version, stats |-> stats, attempt |-> attempt,
          backoff |-> backoff, ts_f |-> ts_f, wlog |-> wlog]

\* a handler's outcome: the objects afterwards, the message returned (or
\* NoMsg), and the exception raised (or "none")
Outcome(w, out, e) == [w |-> w, out |-> out, err |-> e]

\* return msg(t, send_to, reply_to, payload), after the work that led to w
Send(w, t, send_to, reply_to, payload) ==
    IF MsgOk(t, send_to)
    THEN Outcome(w, msg(t, send_to, reply_to, payload), "none")
    ELSE Outcome(w, NoMsg, "AssertionError in msg")

\* "%d" % tm
FormatD(t) == Trunc(Mul(t, Frac(1, TicksPerMs)))

\* ------------------------------------------------------------------ OccServer
\* write, tracing the time only of a write that succeeds
write_log_success_only(w, t, request, x) ==
    LET success == Equals(request.payload, w.version)
        w1 == [w EXCEPT
                 !.ts_f = IF success THEN Append(@, FormatD(t)) ELSE @,
                 !.stats.calls = @ + 1,
                 !.version = IF success THEN @ + 1 ELSE @,
                 !.stats.failures = IF success THEN @ ELSE @ + 1,
                 !.wlog = Append(@, [client |-> request.reply_to.obj,
                                     payload |-> request.payload.val,
                                     ok |-> success])]
    IN  Send(w1, Add(t, delay(x)), request.reply_to, NoneRef, BoolPayload(success))

\* write, leaving stats.failures alone on a version mismatch
write_failure_uncounted(w, t, request, x) ==
    LET success == Equals(request.payload, w.version)
        w1 == [w EXCEPT
                 !.ts_f = Append(@, FormatD(t)),
                 !.stats.calls = @ + 1,
                 !.version = IF success THEN @ + 1 ELSE @,
                 !.wlog = Append(@, [client |-> request.reply_to.obj,
                                     payload |-> request.payload.val,
                                     ok |-> success])]
    IN  Send(w1, Add(t, delay(x)), request.reply_to, NoneRef, BoolPayload(success))

\* write, accepting every request whatever version it carries
write_no_check(w, t, request, x) ==
    LET w1 == [w EXCEPT
                 !.ts_f = Append(@, FormatD(t)),
                 !.stats.calls = @ + 1,
                 !.version = @ + 1,
                 !.wlog = Append(@, [client |-> request.reply_to.obj,
                                     payload |-> request.payload.val,
                                     ok |-> TRUE])]
    IN  Send(w1, Add(t, delay(x)), request.reply_to, NoneRef, BoolPayload(TRUE))

\* write, tracing the time its response is due instead of the time now
write_log_response_time(w, t, request, x) ==
    LET success == Equals(request.payload, w.version)
        w1 == [w EXCEPT
                 !.ts_f = Append(@, FormatD(Add(t, delay(x)))),
                 !.stats.calls = @ + 1,
                 !.version = IF success THEN @ + 1 ELSE @,
                 !.stats.failures = IF success THEN @ ELSE @ + 1,
                 !.wlog = Append(@, [client |-> request.reply_to.obj,
                                     payload |-> request.payload.val,
                                     ok |-> success])]
    IN  Send(w1, Add(t, delay(x)), request.reply_to, NoneRef, BoolPayload(success))

\* OccServer.write at time t, with normal draw x
write(w, t, request, x) ==
    LET success == Equals(request.payload, w.version)
        w1 == [w EXCEPT
                 !.ts_f = Append(@, FormatD(t)),
                 !.stats.calls = @ + 1,
                 !.version = IF success THEN @ + 1 ELSE @,
                 !.stats.failures = IF success THEN @ ELSE @ + 1,
                 !.wlog = Append(@, [client |-> request.reply_to.obj,
                                     payload |-> request.payload.val,
                                     ok |-> success])]
    IN  Send(w1, Add(t, delay(x)), request.reply_to, NoneRef, BoolPayload(success))

\* read, answering with the version the server started with
read_stale(w, t, request, x) ==
    Send(w, Add(t, delay(x)), request.reply_to, NoneRef, IntPayload(0))

\* OccServer.read
read(w, t, request, x) ==
    Send(w, Add(t, delay(x)), request.reply_to, NoneRef,
         IntPayload(w.version))

\* ------------------------------------------------------------------ OccClient
\* OccClient.start of client c
start(w, c, t, x) ==
    Send(w, Add(t, delay(x)), Method(Server, "read"), Method(c, "read_rsp"),
         NonePayload)

\* OccClient.read_rsp of client c
read_rsp(w, c, t, request, x) ==
    Send(w, Add(t, delay(x)), Method(Server, "write"), Method(c, "write_rsp"),
         request.payload)

\* write_rsp, retrying whatever the response says
write_rsp_retry_after_success(w, c, t, request, x, k) ==
    LET w1 == [w EXCEPT !.attempt[c] = @ + 1]
        b == backoff_call(w1.backoff[c], w1.attempt[c], k)
        w2 == [w1 EXCEPT !.backoff[c] = b.obj]
    IN  Send(w2, Add(Add(t, delay(x)), b.ret), Method(Server, "read"),
             Method(c, "read_rsp"), NonePayload)

\* write_rsp, computing the backoff from the attempt count before the
\* increment
write_rsp_backoff_old_attempt(w, c, t, request, x, k) ==
    IF request.payload.val = 0
    THEN LET b == backoff_call(w.backoff[c], w.attempt[c], k)
             w2 == [w EXCEPT !.attempt[c] = @ + 1, !.backoff[c] = b.obj]
         IN  Send(w2, Add(Add(t, delay(x)), b.ret), Method(Server, "read"),
                  Method(c, "read_rsp"), NonePayload)
    ELSE Outcome(w, NoMsg, "none")

\* write_rsp, giving up after a failed write instead of retrying
write_rsp_no_retry(w, c, t, request, x, k) ==
    IF request.payload.val = 0
    THEN Outcome([w EXCEPT !.attempt[c] = @ + 1], NoMsg, "none")
    ELSE Outcome(w, NoMsg, "none")

\* write_rsp, had the clients shared one policy object: the call changes
\* the policy state every client sees
write_rsp_shared_policy(w, c, t, request, x, k) ==
    IF request.payload.val = 0
    THEN LET w1 == [w EXCEPT !.attempt[c] = @ + 1]
             b == backoff_call(w1.backoff[c], w1.attempt[c], k)
             w2 == [w1 EXCEPT !.backoff = [d \in DOMAIN @ |-> b.obj]]
         IN  Send(w2, Add(Add(t, delay(x)), b.ret), Method(Server, "read"),
                  Method(c, "read_rsp"), NonePayload)
    ELSE Outcome(w, NoMsg, "none")

\* OccClient.write_rsp of client c, with normal draw x and unit draw k
write_rsp(w, c, t, request, x, k) ==
    IF request.payload.val = 0
    THEN LET w1 == [w EXCEPT !.attempt[c] = @ + 1]
             b == backoff_call(w1.backoff[c], w1.attempt[c], k)
             w2 == [w1 EXCEPT !.backoff[c] = b.obj]
         IN  Send(w2, Add(Add(t, delay(x)), b.ret), Method(Server, "read"),
                  Method(c, "read_rsp"), NonePayload)
    ELSE Outcome(w, NoMsg, "none")

\* msg[1](tm, msg): the call of the bound method the message is addressed to
Dispatch(w, t, m, x, k) ==
    CASE m.send_to = Method(Server, "read") -> read(w, t, m, x)
      [] m.send_to = Method(Server, "write") -> write(w, t, m, x)
      [] m.send_to.fn = "read_rsp" -> read_rsp(w, m.send_to.obj, t, m, x)
      [] m.send_to.fn = "write_rsp" -> write_rsp(w, m.send_to.obj, t, m, x, k)

\* ------------------------------------------------------------------ run
ClientIds == 1..clients

\* the objects become w
Apply(w) ==
    /\ version' = w.version
    /\ stats' = w.stats
    /\ attempt' = w.attempt
    /\ backoff' = w.backoff
    /\ ts_f' = w.ts_f
    /\ wlog' = w.wlog

\* an uncaught exception e ends the program
Raise(e) ==
    /\ pc' = "crashed"
    /\ err' = e

\* the loop of setup_sim from client i on, with the normal draws d: the heap
\* it builds, or the exception raised and the list as the failed call left
\* it
RECURSIVE SetupLoop(_, _, _, _)
SetupLoop(w, i, q, d) ==
    IF i > clients THEN [h |-> q, err |-> "none"]
    ELSE LET r == start(w, i, Num(0), d[i])
             pushed == heappush(q, r.out)
         IN  IF r.err # "none" THEN [h |-> q, err |-> r.err]
             ELSE IF pushed.err THEN [h |-> pushed.h, err |-> "TypeError"]
             ELSE SetupLoop(w, i + 1, pushed.h, d)

\* setup_sim, had it created a new Stats object for the run
SetupObjectsFreshStats(w) ==
    [w EXCEPT !.version = 0,
              !.stats = NewStats,
              !.attempt = [c \in ClientIds |-> 0],
              !.backoff = [c \in ClientIds |->
                             NewBackoff(policy, Num(SimBase * TicksPerMs),
                                        Num(SimCap * TicksPerMs))],
              !.wlog = <<>>]

\* the objects setup_sim creates: a server at version 0 that keeps the
\* stats and ts_f passed in, and the clients, each with its own policy
\* object
SetupObjects(w) ==
    [w EXCEPT !.version = 0,
              !.attempt = [c \in ClientIds |-> 0],
              !.backoff = [c \in ClientIds |->
                             NewBackoff(policy, Num(SimBase * TicksPerMs),
                                        Num(SimCap * TicksPerMs))],
              !.wlog = <<>>]

\* setup_sim(clients, backoff[0], ts_f, stats), line 167, up to the first
\* line of run_sim(queue)
SetupSim ==
    /\ pc = "setup"
    /\ \E d \in [ClientIds -> NormalDraws] :
          LET w == SetupObjects(World)
              s == SetupLoop(w, 1, <<>>, d)
          IN  /\ Apply(w)
              /\ queue' = s.h
              /\ tm' = Num(0)
              /\ IF s.err # "none" THEN Raise(s.err)
                 ELSE pc' = "run" /\ err' = err
    /\ UNCHANGED <<policy, clients, rep, bovars>>

\* one iteration of the loop of run_sim, with normal draw x and unit draw k
RunIter(x, k) ==
    LET p == heappop(queue)
        m == p.item
    IN  IF p.err
        THEN /\ Raise("TypeError")
             /\ queue' = p.h
             /\ UNCHANGED <<version, stats, attempt, backoff, ts_f, wlog, tm>>
        ELSE IF ~AtMost(tm, m.tm)
        THEN /\ Raise("AssertionError in run_sim")
             /\ queue' = p.h
             /\ UNCHANGED <<version, stats, attempt, backoff, ts_f, wlog, tm>>
        ELSE LET r == Dispatch(World, m.tm, m, x, k)
                 q == IF r.err = "none" /\ r.out # NoMsg
                      THEN heappush(p.h, r.out)
                      ELSE [h |-> p.h, err |-> FALSE]
             IN  /\ tm' = m.tm
                 /\ Apply(r.w)
                 /\ queue' = q.h
                 /\ IF r.err # "none" THEN Raise(r.err)
                    ELSE IF q.err THEN Raise("TypeError")
                    ELSE pc' = pc /\ err' = err

Running == pc = "run" /\ queue # <<>>

\* an iteration that delivers a read request to the server
ServerRead ==
    /\ Running
    /\ queue[1].send_to = Method(Server, "read")
    /\ \E x \in NormalDraws : RunIter(x, 0)
    /\ UNCHANGED <<policy, clients, rep, bovars>>

\* an iteration that delivers a write request to the server
ServerWrite ==
    /\ Running
    /\ queue[1].send_to = Method(Server, "write")
    /\ \E x \in NormalDraws : RunIter(x, 0)
    /\ UNCHANGED <<policy, clients, rep, bovars>>

\* an iteration that delivers a read response to its client
ClientReadRsp ==
    /\ Running
    /\ queue[1].send_to.fn = "read_rsp"
    /\ \E x \in NormalDraws : RunIter(x, 0)
    /\ UNCHANGED <<policy, clients, rep, bovars>>

\* an iteration that delivers a write response to its client
ClientWriteRsp ==
    /\ Running
    /\ queue[1].send_to.fn = "write_rsp"
    /\ \E x \in NormalDraws, k \in UnitDraws : RunIter(x, k)
    /\ UNCHANGED <<policy, clients, rep, bovars>>

\* run_sim returns tm; the next repetition, or the end of the configuration
RunSimReturn ==
    /\ pc = "run"
    /\ queue = <<>>
    /\ rep' = rep + 1
    /\ pc' = IF rep + 1 < Reps THEN "setup" ELSE "done"
    /\ UNCHANGED <<err, policy, clients, stats, version, queue, tm, attempt,
                   backoff, ts_f, wlog, bovars>>

\* the state at line 166: one configuration, its Stats and trace file fresh
Init ==
    /\ pc = "setup"
    /\ err = "none"
    /\ policy \in Policies
    /\ clients \in 1..MaxClients
    /\ rep = 0
    /\ stats = NewStats
    /\ version = 0
    /\ queue = <<>>
    /\ tm = Num(0)
    /\ attempt = [c \in ClientIds |-> 0]
    /\ backoff = [c \in ClientIds |->
                    NewBackoff(policy, Num(SimBase * TicksPerMs),
                               Num(SimCap * TicksPerMs))]
    /\ ts_f = <<>>
    /\ wlog = <<>>
    /\ inst = NewBackoff("NoBackoff", Num(0), Num(0))
    /\ ret = Num(0)
    /\ prev = Num(0)
    /\ arg = 0
    /\ ncalls = 0

Next ==
    \/ SetupSim
    \/ ServerRead
    \/ ServerWrite
    \/ ClientReadRsp
    \/ ClientWriteRsp
    \/ RunSimReturn

Spec == Init /\ [][Next]_vars

\* the program keeps running: the loop of run_sim takes its next iteration
\* while the queue is non-empty, and the loop of line 166 starts the next run
FairSpec == Init /\ [][Next]_vars /\ WF_vars(Next)

\* a configuration of population size 1
InitOneClient == Init /\ clients = 1

\* its runs; the interpreter keeps executing run(), so a step that can be
\* taken is taken
OneClientSpec == InitOneClient /\ [][Next]_vars /\ WF_vars(Next)

\* ------------------------------------------------------------------
\* The backoff classes on their own: one policy object of any class, base
\* and cap, and backoff(n) called on it with any n and any random draw.
Params == {Num(p * TicksPerMs) : p \in 1..MaxParam}

BackoffInit ==
    /\ inst \in {NewBackoff(cls, base, cap) :
                   cls \in Policies, base \in Params, cap \in Params}
    /\ ret = Num(0)
    /\ prev = Num(0)
    /\ arg = 0
    /\ ncalls = 0
    /\ pc = "setup"
    /\ err = "none"
    /\ policy = inst.cls
    /\ clients = 1
    /\ rep = 0
    /\ stats = NewStats
    /\ version = 0
    /\ queue = <<>>
    /\ tm = Num(0)
    /\ attempt = [c \in ClientIds |-> 0]
    /\ backoff = [c \in ClientIds |-> inst]
    /\ ts_f = <<>>
    /\ wlog = <<>>

\* inst.backoff(n)
BackoffCall ==
    /\ ncalls < MaxCalls
    /\ \E n \in 0..MaxAttempt, k \in UnitDraws :
          LET r == backoff_call(inst, n, k)
          IN  /\ inst' = r.obj
              /\ ret' = r.ret
              /\ prev' = inst.sleep
              /\ arg' = n
    /\ ncalls' = ncalls + 1
    /\ UNCHANGED simvars

\* a fresh object of the same class, base and cap
BackoffNew ==
    /\ ncalls > 0
    /\ inst' = NewBackoff(inst.cls, inst.base, inst.cap)
    /\ ncalls' = 0
    /\ UNCHANGED <<ret, prev, arg>>
    /\ UNCHANGED simvars

BackoffNext ==
    \/ BackoffCall
    \/ BackoffNew

BackoffSpec == BackoffInit /\ [][BackoffNext]_vars

\* ------------------------------------------------------------------
\* Properties of the simulation (Spec)

RECURSIVE Successes(_)
\* the number of successful writes in a log of write requests
Successes(log) ==
    IF log = <<>> THEN 0
    ELSE (IF log[Len(log)].ok THEN 1 ELSE 0)
         + Successes(SubSeq(log, 1, Len(log) - 1))

\* the run in progress is the first to use the Stats object, so it started
\* with calls = 0 and failures = 0
StartedAtZero == rep = 0

\* C1: in a run whose Statistics started at zero, after every processed
\* event calls - failures equals the server's version, and the version is
\* the number of successful writes handled so far.
C1_CallsMinusFailuresIsVersion ==
    StartedAtZero =>
        /\ stats.calls - stats.failures = version
        /\ version = Successes(wlog)
        /\ stats.calls = Len(wlog)

\* a run from zeroed Statistics with two successful writes and a failed one
C1_Witness ==
    /\ StartedAtZero
    /\ version = 2
    /\ stats.failures >= 1
    /\ stats.calls = 3

\* run_sim is about to return: the loop condition found the queue empty
RunSimReturns == pc = "run" /\ queue = <<>>

\* C2: when run_sim returns from a run of N clients started with zeroed
\* Statistics, version = N, calls >= N and failures = calls - N.
C2_FinalCounts ==
    (StartedAtZero /\ RunSimReturns) =>
        /\ version = clients
        /\ stats.calls >= clients
        /\ stats.failures = stats.calls - clients

\* a run of two clients has drained after a failed write and a retry
C2_Witness ==
    /\ StartedAtZero
    /\ RunSimReturns
    /\ clients = 2
    /\ stats.failures >= 1
    /\ \E c \in ClientIds : attempt[c] >= 1

\* the first N write requests the server handled in this run
FirstWrites == SubSeq(wlog, 1, clients)

\* C3 as stated: once N writes have been handled, the first N all carried
\* version 0 and exactly one of them succeeded.
C3_FirstNWritesCarryZero ==
    Len(wlog) >= clients =>
        /\ \A i \in 1..clients : wlog[i].payload = 0
        /\ Successes(FirstWrites) = 1

\* C3 as amended: the first write handled in a run carries version 0 and
\* succeeds, and no other write carrying version 0 succeeds, so exactly one
\* write carrying version 0 succeeds.
C3_ExactlyOneZeroWriteSucceeds ==
    wlog # <<>> =>
        /\ wlog[1].payload = 0
        /\ wlog[1].ok
        /\ \A i \in 2..Len(wlog) : wlog[i].payload = 0 => ~wlog[i].ok

\* two writes carrying version 0 were handled, the second one failed, and a
\* later write carried version 1
C3_Witness ==
    /\ Len(wlog) >= 3
    /\ wlog[1].payload = 0 /\ wlog[1].ok
    /\ wlog[2].payload = 0 /\ ~wlog[2].ok
    /\ wlog[3].payload = 1

\* how far the only client of a one-client run has got: 0 its read request
\* is queued, 1 the read response, 2 its write request, 3 the write
\* response, 4 nothing is queued
Stage ==
    IF queue = <<>> THEN 4
    ELSE CASE queue[1].send_to = Method(Server, "read") -> 0
           [] queue[1].send_to = Method(1, "read_rsp") -> 1
           [] queue[1].send_to = Method(Server, "write") -> 2
           [] queue[1].send_to = Method(1, "write_rsp") -> 3

\* what a one-client run looks like at each stage
OneClientShape ==
    /\ err = "none"
    /\ pc = "run" =>
         /\ Len(queue) <= 1
         /\ attempt[1] = 0
         /\ Stage <= 2 => wlog = <<>> /\ version = 0
         /\ Stage >= 3 =>
              /\ wlog = <<[client |-> 1, payload |-> 0, ok |-> TRUE]>>
              /\ version = 1
         /\ Stage = 3 => queue[1].payload = BoolPayload(TRUE)
         /\ Stage <= 2 => stats = [calls |-> rep, failures |-> 0]
         /\ Stage >= 3 => stats = [calls |-> rep + 1, failures |-> 0]

\* start comes first, and every iteration moves the client one stage on
OneClientOrder ==
    /\ (pc = "setup" /\ pc' = "run") => Stage' = 0
    /\ (pc = "run" /\ queue # <<>>) => (pc' = "run" /\ Stage' = Stage + 1)

\* C4 as stated: when a one-client run ends, calls = 1 and failures = 0.
C4_OneClientCallsIsOne ==
    (clients = 1 /\ RunSimReturns) => stats = [calls |-> 1, failures |-> 0]

\* C4 as amended: with one client and any policy the run goes start, server
\* read, read_rsp, server write, write_rsp and then ends: the write
\* succeeds, the attempt count stays 0, version = 1 and failures = 0; the
\* run adds one call to the Statistics, which count the runs of the
\* configuration so far, so calls = 1 at the end of the first run and
\* calls = rep + 1 at the end of the run after rep others.
C4_OneClientOneRoundTrip ==
    /\ [](clients = 1 => OneClientShape)
    /\ [][clients = 1 => OneClientOrder]_vars
    /\ (clients = 1 /\ pc = "run") ~> (RunSimReturns /\ Stage = 4 /\ version = 1)

\* the second run of the only client has ended: its write response has been
\* delivered, the queue is empty and the Statistics count both runs
C4_Witness ==
    /\ clients = 1
    /\ rep = 1
    /\ RunSimReturns
    /\ Less(Num(0), tm)
    /\ policy = "ExpoBackoffDecorr"
    /\ stats = [calls |-> 2, failures |-> 0]
    /\ version = 1
    /\ attempt[1] = 0

\* no queued event is due before the clock, and the assertion of line 122
\* has not failed
ClockBehind ==
    /\ err # "AssertionError in run_sim"
    /\ pc = "run" => \A i \in 1..Len(queue) : AtMost(tm, queue[i].tm)

\* C5: within a run the clock tm of run_sim never decreases: every popped
\* event is due at or after the time of the event before it, so the
\* assertion msg[0] >= tm never fails.
C5_ClockNeverGoesBack ==
    /\ []ClockBehind
    /\ [][pc = "run" => AtMost(tm, tm')]_vars

\* the clock has advanced, and a retry that waited out a backoff is queued
\* behind another client's event
C5_Witness ==
    /\ pc = "run"
    /\ Less(Num(0), tm)
    /\ Len(queue) = 2
    /\ Less(queue[1].tm, queue[2].tm)
    /\ policy = "ExpoBackoff"
    /\ \E c \in ClientIds : attempt[c] = 1

\* C6 as stated: the trace holds one entry per successful write, so in a
\* run from zeroed Statistics and an empty trace its length is the version.
C6_TraceCountsSuccesses == StartedAtZero => Len(ts_f) = version

\* C6 as amended: the server appends a timestamp to the trace on every
\* write call, failed ones included: the trace holds one entry per write
\* call, which from an empty trace is the version plus the failed writes.
C6_TraceCountsCalls ==
    /\ Len(ts_f) = stats.calls
    /\ Len(ts_f) >= Len(wlog)
    /\ StartedAtZero => Len(ts_f) = version + stats.failures

\* a failed write has been traced: more entries than successful writes
C6_Witness ==
    /\ StartedAtZero
    /\ stats.failures >= 1
    /\ Len(ts_f) = 3
    /\ version = 2

\* the positions in the queue of the events that belong to client c
EventsOf(c) ==
    {i \in 1..Len(queue) : queue[i].send_to.obj = c \/ queue[i].reply_to.obj = c}

\* the number of successful writes of client c in this run
SuccessesOf(c) ==
    Cardinality({i \in 1..Len(wlog) : wlog[i].client = c /\ wlog[i].ok})

\* client c has had a successful write and has no event left
Finished(c) == SuccessesOf(c) >= 1 /\ EventsOf(c) = {}

\* C7: a client has at most one successful write in a run; after it the
\* only event the client can still have is the success response, whose
\* delivery leaves the client without an event, and from then on the client
\* never has an event again in that run; when run_sim returns every client
\* has had exactly one.
C7_OneSuccessPerClient ==
    /\ [](\A c \in ClientIds :
            /\ SuccessesOf(c) <= 1
            /\ SuccessesOf(c) = 1 =>
                 \A i \in EventsOf(c) :
                    /\ queue[i].send_to = Method(c, "write_rsp")
                    /\ queue[i].payload = BoolPayload(TRUE)
            /\ RunSimReturns => SuccessesOf(c) = 1)
    /\ [][\A c \in ClientIds :
            /\ (pc = "run" /\ Finished(c)) => Finished(c)'
            /\ (Running /\ queue[1].send_to = Method(c, "write_rsp")
                  /\ queue[1].payload = BoolPayload(TRUE) /\ pc' = "run")
                 => Finished(c)']_vars

\* one client is finished while the other, after a failed write, retries
C7_Witness ==
    /\ pc = "run"
    /\ clients = 2
    /\ \E c, d \in ClientIds :
          /\ Finished(c)
          /\ attempt[d] = 1
          /\ SuccessesOf(d) = 0
          /\ EventsOf(d) # {}

\* a run has been set up and the server has handled no write yet
RunStarts == pc = "run" /\ wlog = <<>>

\* C8 as stated: every run starts with calls = 0 and failures = 0.
C8_EveryRunStartsAtZero == RunStarts => stats = NewStats

\* C8 as amended: the Statistics are created once per configuration and
\* setup_sim keeps the object it is given: the first run starts at zero and
\* every later run starts with what the runs before it counted, one
\* successful write per client and run.
C8_StatsCarryOver ==
    RunStarts =>
        /\ stats.calls - stats.failures = rep * clients
        /\ stats.failures >= 0
        /\ rep = 0 => stats = NewStats

\* the second run of two clients starts with the first run's three calls
C8_Witness ==
    /\ RunStarts
    /\ rep = 1
    /\ clients = 2
    /\ stats = [calls |-> 3, failures |-> 1]

\* ------------------------------------------------------------------
\* Properties of the backoff classes (BackoffSpec)

\* C9: for every class, base, cap, attempt number and random draw,
\* 0 <= backoff(n) <= cap; for ExpoBackoffDecorr after any earlier calls on
\* the same object.
C9_BackoffWithinCap ==
    ncalls > 0 => (AtMost(Num(0), ret) /\ AtMost(ret, inst.cap))

\* an ExpoBackoff call whose exponential was cut down to the cap
C9_Witness ==
    /\ ncalls >= 2
    /\ inst.cls = "ExpoBackoff"
    /\ ret = inst.cap
    /\ Less(inst.cap, Mul(Num(Pow2(arg)), inst.base))

\* C10 as stated: for any positive base and cap, every value returned by
\* ExpoBackoffDecorr lies in [base, min(cap, 3 * previous)], previous being
\* base for the first call on a fresh object.
C10_DecorrRange ==
    (ncalls > 0 /\ inst.cls = "ExpoBackoffDecorr") =>
        /\ AtMost(inst.base, ret)
        /\ AtMost(ret, Min(inst.cap, Mul(Num(3), prev)))
        /\ ncalls = 1 => prev = inst.base

\* C10 as amended: the same, for base <= cap.
C10_DecorrRangeBaseBelowCap ==
    (ncalls > 0 /\ inst.cls = "ExpoBackoffDecorr"
       /\ AtMost(inst.base, inst.cap)) =>
        /\ AtMost(inst.base, ret)
        /\ AtMost(ret, Min(inst.cap, Mul(Num(3), prev)))
        /\ ret = inst.sleep
        /\ ncalls = 1 => prev = inst.base

\* a second call on the same object drew more than the cap and returned it
C10_Witness ==
    /\ ncalls = 2
    /\ inst.cls = "ExpoBackoffDecorr"
    /\ Less(inst.base, inst.cap)
    /\ Less(inst.base, prev)
    /\ Less(inst.cap, Mul(Num(3), prev))
    /\ ret = inst.cap

\* C11: for ExpoBackoff, backoff(n) <= backoff(n + 1) for every n, and once
\* backoff(n) equals cap, backoff(m) equals cap for every m >= n: the value
\* a call returns is at most that of attempt n + 1 and of any later call
\* with a larger n, and a call that returned cap is followed by cap.
C11_ExpoMonotone ==
    /\ []((ncalls > 0 /\ inst.cls = "ExpoBackoff") =>
            /\ AtMost(ret, backoff_call(inst, arg + 1, 0).ret)
            /\ ret = inst.cap =>
                 \A m \in arg..(MaxAttempt + 1) :
                    backoff_call(inst, m, 0).ret = inst.cap)
    /\ [][(ncalls > 0 /\ ncalls' = ncalls + 1 /\ inst.cls = "ExpoBackoff"
             /\ arg' >= arg) =>
            /\ AtMost(ret, ret')
            /\ ret = inst.cap => ret' = inst.cap]_vars

\* a call of ExpoBackoff that has just reached the cap: the attempt before
\* it was still below
C11_Witness ==
    /\ ncalls >= 2
    /\ inst.cls = "ExpoBackoff"
    /\ arg >= 1
    /\ arg < MaxAttempt
    /\ ret = inst.cap
    /\ Less(Mul(Num(Pow2(arg - 1)), inst.base), inst.cap)

\* ------------------------------------------------------------------
\* More properties of the simulation (Spec)

\* the lines this run has added to the trace file: one per write handled
RunTrace == SubSeq(ts_f, Len(ts_f) - Len(wlog) + 1, Len(ts_f))

\* C12: the timestamps appended to the trace during one run form a
\* non-decreasing sequence.
C12_TraceNonDecreasing ==
    \A i, j \in 1..Len(RunTrace) : i <= j => RunTrace[i] <= RunTrace[j]

\* a run has traced three writes at three different milliseconds
C12_Witness ==
    /\ Len(RunTrace) = 3
    /\ RunTrace[1] < RunTrace[2]
    /\ RunTrace[2] < RunTrace[3]

\* the number of failed writes of client c the server handled in this run
FailedWritesOf(c) ==
    Cardinality({i \in 1..Len(wlog) : wlog[i].client = c /\ ~wlog[i].ok})

\* the positions in the queue of failed write responses addressed to c
FailedResponsesOf(c) ==
    {i \in 1..Len(queue) : /\ queue[i].send_to = Method(c, "write_rsp")
                           /\ queue[i].payload = BoolPayload(FALSE)}

\* the next iteration delivers to client c a write response saying ok
ResponseAtHead(c, ok) ==
    /\ Running
    /\ queue[1].send_to = Method(c, "write_rsp")
    /\ queue[1].payload = BoolPayload(ok)

\* after the step the queue holds a read request of client c that is due
\* at now + delay + backoff(n) for some normal draw and some unit draw
RetryScheduled(c, now, n) ==
    \E i \in 1..Len(queue') :
        /\ queue'[i] = msg(queue'[i].tm, Method(Server, "read"),
                           Method(c, "read_rsp"), NonePayload)
        /\ \E x \in NormalDraws, k \in UnitDraws :
              queue'[i].tm = Add(Add(now, delay(x)),
                                 backoff_call(backoff[c], n, k).ret)
        /\ policy = "ExpoBackoff" =>
              AtMost(Add(now, expo(backoff[c], n)), queue'[i].tm)

\* C13: a failed write response delivered at time now increments the
\* client's attempt counter by one and schedules its read request at
\* now + delay + backoff(attempt) with the incremented attempt; a
\* successful one leaves the counter alone; so the counter is the number of
\* failed write responses the client has received.
C13_RetryAfterFailure ==
    /\ [](\A c \in ClientIds :
            attempt[c] = FailedWritesOf(c) - Cardinality(FailedResponsesOf(c)))
    /\ [][\A c \in ClientIds :
            /\ (ResponseAtHead(c, FALSE) /\ pc' = "run") =>
                  /\ attempt'[c] = attempt[c] + 1
                  /\ RetryScheduled(c, queue[1].tm, attempt[c] + 1)
            /\ ResponseAtHead(c, TRUE) => attempt'[c] = attempt[c]
            /\ (pc = "run" /\ ~ResponseAtHead(c, FALSE)) =>
                  attempt'[c] = attempt[c]]_vars

\* a client's first retry is queued a full backoff(1) after the clock
C13_Witness ==
    /\ pc = "run"
    /\ policy = "ExpoBackoff"
    /\ \E c \in ClientIds :
          /\ attempt[c] = 1
          /\ FailedWritesOf(c) = 1
          /\ \E i \in EventsOf(c) :
                /\ queue[i].send_to = Method(Server, "read")
                /\ AtMost(Add(tm, Num(2 * SimBase * TicksPerMs)), queue[i].tm)

\* the next iteration hands the server a write request that will succeed
SuccessfulWriteAtHead ==
    /\ Running
    /\ queue[1].send_to = Method(Server, "write")
    /\ queue[1].payload = IntPayload(version)

\* C14: the version is 0 when a run is set up and changes only in a
\* successful write, by exactly one: server reads, failed writes and the
\* client handlers leave it alone, and a read leaves the Statistics alone;
\* within a run it never decreases and never exceeds the number of clients.
C14_VersionChangesOnlyOnSuccess ==
    /\ [](0 <= version /\ version <= clients)
    /\ [][/\ (pc = "setup" /\ pc' = "run") => version' = 0
          /\ pc = "run" =>
               /\ version' >= version
               /\ version' # version =>
                    (SuccessfulWriteAtHead /\ version' = version + 1)
               /\ (SuccessfulWriteAtHead /\ tm' = queue[1].tm
                     /\ wlog' # wlog) => version' = version + 1
               /\ (Running /\ queue[1].send_to = Method(Server, "read")) =>
                    stats' = stats
               /\ (Running /\ queue[1].send_to.obj # Server) =>
                    stats' = stats]_vars

\* a failed write has left the version where a successful one put it
C14_Witness ==
    /\ pc = "run"
    /\ version = 1
    /\ Len(wlog) = 2
    /\ wlog[1].ok
    /\ ~wlog[2].ok
    /\ clients = 2

\* message m is well formed: a request to the server names the client
\* handler to reply to, a response to a client names none
WellFormed(m) ==
    /\ AtMost(Num(0), m.tm)
    /\ m.send_to # NoneRef
    /\ m.send_to.obj = Server =>
         /\ m.reply_to # NoneRef
         /\ m.reply_to.obj \in ClientIds
         /\ m.send_to.fn = "read" => m.reply_to.fn = "read_rsp"
         /\ m.send_to.fn = "write" => m.reply_to.fn = "write_rsp"
    /\ m.send_to.obj # Server =>
         /\ m.send_to.obj \in ClientIds
         /\ m.reply_to = NoneRef

\* C15: every message built in a run is due at a time >= 0 and has a
\* target, so neither assertion of msg() fails; every request to the server
\* carries the handler to reply to, and only the server's responses carry
\* none.
C15_MessagesWellFormed ==
    /\ err # "AssertionError in msg"
    /\ \A i \in 1..Len(queue) : WellFormed(queue[i])

\* a request to the server and a response of the server are queued together
C15_Witness ==
    /\ pc = "run"
    /\ Len(queue) = 2
    /\ \E i, j \in 1..2 :
          /\ queue[i].send_to = Method(Server, "write")
          /\ queue[i].reply_to # NoneRef
          /\ queue[j].send_to.fn = "read_rsp"
          /\ queue[j].reply_to = NoneRef
          /\ Less(Num(0), queue[j].tm)

\* C16: when two events have equal due times the queue still orders them
\* and the run goes on: no run is ended by the comparison of two events
\* that are due at the same time.
C16_TiesDoNotAbort == ~(pc = "crashed" /\ err = "TypeError")

\* C17: each client has a policy object of its own. Within a run a step
\* changes the attempt counter or the policy state of client d only when it
\* delivers a failed write response to d; the new policy state of d is
\* that of one backoff call on d's own object, so it does not depend on
\* what the other clients did.
C17_OwnPolicyOnly ==
    [][pc = "run" =>
         \A d \in ClientIds :
            /\ (attempt'[d] # attempt[d] \/ backoff'[d] # backoff[d]) =>
                 /\ queue # <<>>
                 /\ queue[1].send_to = Method(d, "write_rsp")
                 /\ queue[1].payload = BoolPayload(FALSE)
            /\ \E k \in UnitDraws :
                  backoff'[d] \in
                     {backoff[d],
                      backoff_call(backoff[d], attempt[d] + 1, k).obj}]_vars

\* one client's Decorrelated policy has moved on, the other's is as created
C17_Witness ==
    /\ pc = "run"
    /\ policy = "ExpoBackoffDecorr"
    /\ \E c, d \in ClientIds :
          /\ c # d
          /\ attempt[c] = 1
          /\ Less(backoff[c].base, backoff[c].sleep)
          /\ attempt[d] = 0
          /\ backoff[d] = NewBackoff(policy, Num(SimBase * TicksPerMs),
                                     Num(SimCap * TicksPerMs))

\* C18: for every number of clients, every backoff variant and every choice
\* of delays the run terminates: a run that has started reaches the point
\* where run_sim returns, its queue empty and every client done.
C18_EveryRunTerminates ==
    (pc = "run") ~> (RunSimReturns /\ \A c \in ClientIds : Finished(c))

\* the message in q addressed to send_to carries payload
Carries(q, send_to, payload) ==
    \E i \in 1..Len(q) : q[i].send_to = send_to /\ q[i].payload = payload

\* C19: a write succeeds exactly when no write succeeded between the
\* server's answer to its client's latest read and the write itself: the
\* read response carries the number of writes that have succeeded so far,
\* the client sends it back unchanged, and the write succeeds exactly when
\* that is still the number of writes that have succeeded. So no two
\* successful writes of a run carry the same payload, and the first write
\* of a run succeeds.
C19_WriteSucceedsIffNoneBetween ==
    /\ [](version = Successes(wlog))
    /\ [](\A i \in 1..Len(wlog) :
             /\ wlog[i].ok <=> wlog[i].payload = Successes(SubSeq(wlog, 1, i - 1))
             /\ wlog[i].payload <= Successes(SubSeq(wlog, 1, i - 1)))
    /\ [](\A i, j \in 1..Len(wlog) :
             (i # j /\ wlog[i].ok /\ wlog[j].ok) =>
                 wlog[i].payload # wlog[j].payload)
    /\ [](wlog # <<>> => wlog[1].ok)
    /\ [][(Running /\ pc' = "run") =>
            /\ queue[1].send_to = Method(Server, "read") =>
                 Carries(queue', queue[1].reply_to, IntPayload(Successes(wlog)))
            /\ queue[1].send_to.fn = "read_rsp" =>
                 Carries(queue', Method(Server, "write"), queue[1].payload)]_vars

\* a write that succeeds, one that fails because of it, and the retry that
\* succeeds with the payload of a later read
C19_Witness ==
    /\ Len(wlog) = 3
    /\ wlog[1].ok /\ wlog[1].payload = 0
    /\ ~wlog[2].ok /\ wlog[2].payload = 0
    /\ wlog[3].ok /\ wlog[3].payload = 1
    /\ wlog[3].client = wlog[2].client

\* client c has been handed the response to its successful write
Done(c) ==
    /\ SuccessesOf(c) >= 1
    /\ ~\E i \in 1..Len(queue) : queue[i].send_to = Method(c, "write_rsp")

\* C20: between two iterations of the loop of run_sim the queue holds one
\* event for every client that is not done and none for a client that is
\* done, so it never holds more events than there are clients; an iteration
\* never makes the queue longer, and makes it shorter, by one, exactly when
\* it hands a client the response to a successful write.
C20_OneEventPerUnfinishedClient ==
    /\ [](pc = "run" =>
            /\ \A c \in ClientIds :
                  Cardinality(EventsOf(c)) = IF Done(c) THEN 0 ELSE 1
            /\ \A i \in 1..Len(queue) : \E c \in ClientIds : i \in EventsOf(c)
            /\ Len(queue) = Cardinality({c \in ClientIds : ~Done(c)})
            /\ Len(queue) <= clients)
    /\ [][(pc = "run" /\ pc' = "run") =>
            /\ Len(queue') <= Len(queue)
            /\ Len(queue') >= Len(queue) - 1
            /\ Len(queue') = Len(queue) - 1 <=>
                 /\ queue # <<>>
                 /\ queue[1].send_to.fn = "write_rsp"
                 /\ queue[1].payload = BoolPayload(TRUE)]_vars

\* one client is done and has no event; the other has failed once and has
\* the one event of its retry
C20_Witness ==
    /\ pc = "run"
    /\ clients = 2
    /\ Len(queue) = 1
    /\ \E c, d \in ClientIds :
          /\ Done(c) /\ EventsOf(c) = {}
          /\ ~Done(d) /\ attempt[d] = 1 /\ EventsOf(d) = {1}

====
